---- MODULE Spec2Model ----
(***************************************************************************)
(* Model of backend/app.py: the /review orchestration (syntax check, ruff, *)
(* radon, bandit, score/suggestion/summary derivation, sandboxed run) and  *)
(* the /chat fallback chain (ollama, openai, echo).                        *)
(*                                                                         *)
(* Python strings are sequences of tokens (short strings standing for a    *)
(* run of characters), so strip/lower/startswith/endswith and the regular  *)
(* expressions are computed on them.  A Python None in a string position   *)
(* is NoneVal, an absent dictionary key is MissingVal; an optional number  *)
(* is <<>> (None) or <<n>>.  The maintainability index is kept in tenths,  *)
(* an average complexity as the pair <<sum, count>>.                       *)
(***************************************************************************)
EXTENDS Integers, Sequences, FiniteSets, TLC

VARIABLES
    pc,            \* position of review(): idle, syntax, lint, ..., done
    request,       \* JSON body of the /review request
    code,          \* review(): code (trimmed)
    files,         \* temporary files that exist on disk
    issues,        \* review(): issues
    metrics,       \* review(): metrics
    sec_findings,  \* review(): sec_findings
    scores,        \* review(): scores
    suggestions,   \* review(): suggestions
    summary,       \* review(): summary
    response,      \* what the /review request returned
    trace,         \* steps of review() started so far, in order
    observed,      \* what the external tools did during this request
    chatPc,        \* position of chat(): idle, tier1, tier2, echo, done
    chatRequest,   \* JSON body and environment of the /chat request
    last_user,     \* chat(): last_user
    conv,          \* chat(): conv sent to the hosted API
    chatResponse,  \* what the /chat request returned
    chatTrace,     \* tiers attempted so far, in order
    chatObserved   \* what the two services did during this request

reviewVars == <<pc, request, code, files, issues, metrics, sec_findings,
                scores, suggestions, summary, response, trace, observed>>
chatVars == <<chatPc, chatRequest, last_user, conv, chatResponse, chatTrace,
              chatObserved>>
vars == <<pc, request, code, files, issues, metrics, sec_findings,
          scores, suggestions, summary, response, trace, observed,
          chatPc, chatRequest, last_user, conv, chatResponse, chatTrace,
          chatObserved>>

----------------------------------------------------------------------------
(* Bounds *)

MaxLint == 1          \* findings in one ruff report
MaxEntries == 2       \* functions in one radon cc report
MaxFindings == 1      \* findings in one bandit report (review flow)
MaxCodeLen == 4       \* tokens of a source text (testing heuristic)
MaxScoreFindings == 5 \* findings handed to score_from (security score)
MaxSuggIssues == 2    \* issues handed to build_suggestions
MaxSuggFindings == 2  \* findings handed to build_suggestions
MaxMsgs == 2          \* messages in one /chat request

----------------------------------------------------------------------------
(* Python values and string operations *)

NoneVal == <<"<None>">>
MissingVal == <<"<missing>">>

SeqsUpTo(S, n) == UNION {[1..k -> S] : k \in 0..n}

Whitespace == {" ", "\n"}

RECURSIVE LStrip(_)
LStrip(s) == IF s # <<>> /\ Head(s) \in Whitespace THEN LStrip(Tail(s)) ELSE s

RECURSIVE RStrip(_)
RStrip(s) ==
    IF s # <<>> /\ s[Len(s)] \in Whitespace
    THEN RStrip(SubSeq(s, 1, Len(s) - 1))
    ELSE s

Strip(s) == RStrip(LStrip(s))

LowerTok(t) ==
    CASE t = ".PY" -> ".py"
      [] t = "A" -> "a"
      [] OTHER -> t

Lower(s) == [i \in DOMAIN s |-> LowerTok(s[i])]

UpperTok(t) ==
    CASE t = "high" -> "HIGH"
      [] t = "medium" -> "MEDIUM"
      [] OTHER -> t

Upper(s) == [i \in DOMAIN s |-> UpperTok(s[i])]

StartsWith(s, prefix) ==
    /\ Len(s) >= Len(prefix)
    /\ SubSeq(s, 1, Len(prefix)) = prefix

EndsWith(s, suffix) ==
    /\ Len(s) >= Len(suffix)
    /\ SubSeq(s, Len(s) - Len(suffix) + 1, Len(s)) = suffix

\* x or default
OrElse(x, default) ==
    IF x = NoneVal \/ x = MissingVal \/ x = <<>> THEN default ELSE x

\* d.get(key, default): the default replaces an absent key only
GetOr(v, default) == IF v = MissingVal THEN default ELSE v

\* d.get(key)
Get(v) == GetOr(v, NoneVal)

Digits == <<"0", "1", "2", "3", "4", "5", "6", "7", "8", "9">>

RECURSIVE IntText(_)
IntText(n) ==
    IF n < 10 THEN <<Digits[n + 1]>>
    ELSE IntText(n \div 10) \o <<Digits[(n % 10) + 1]>>

\* round(n / d) of Python 3: ties go to the even neighbour
RoundHalfEven(n, d) ==
    LET q == n \div d
        r == n % d
    IN  IF 2 * r < d THEN q
        ELSE IF 2 * r > d THEN q + 1
        ELSE IF q % 2 = 0 THEN q ELSE q + 1

\* f"{n/d:.1f}"
Fixed1(n, d) ==
    LET r == RoundHalfEven(10 * n, d)
    IN  IntText(r \div 10) \o <<".">> \o <<Digits[(r % 10) + 1]>>

\* f"{n/d:.0f}"
Fixed0(n, d) == IntText(RoundHalfEven(n, d))

Max(a, b) == IF a >= b THEN a ELSE b
Min(a, b) == IF a <= b THEN a ELSE b

clamp(v, lo, hi) == Max(lo, Min(hi, v))

RECURSIVE SumSeq(_)
SumSeq(s) == IF s = <<>> THEN 0 ELSE Head(s) + SumSeq(Tail(s))

RECURSIVE MaxSeq(_)
MaxSeq(s) == IF Len(s) = 1 THEN s[1] ELSE Max(Head(s), MaxSeq(Tail(s)))

SelectIdx(s, P(_)) == {i \in DOMAIN s : P(s[i])}

----------------------------------------------------------------------------
(* Outcomes of subprocess.run and what the tools print *)

Raised(e) ==
    [exc |-> e, returncode |-> -1,
     stdout |-> [kind |-> "empty", value |-> <<>>], stderr |-> <<>>]

Completed(rc, so, se) ==
    [exc |-> "none", returncode |-> rc, stdout |-> so, stderr |-> se]

\* stdout is "" (empty), whitespace only (blank), text that is not JSON
\* (garbage), or JSON text carrying a value
EmptyOut == [kind |-> "empty", value |-> <<>>]
BlankOut == [kind |-> "blank", value |-> <<>>]
GarbageOut == [kind |-> "garbage", value |-> <<>>]
JsonOut(v) == [kind |-> "json", value |-> v]

\* out.stdout.strip() is non-empty
StdoutStripped(so) == so.kind \in {"garbage", "json"}

\* json.loads(text) raises on text that is not JSON
JsonLoadsRaises(so) == so.kind # "json"

\* class of an outcome, recorded in observed
OutcomeClass(out) ==
    IF out.exc = "FileNotFoundError" THEN "absent"
    ELSE IF out.exc # "none" THEN "raised"
    ELSE IF out.returncode \notin {0, 1} THEN "status"
    ELSE "ran"

Returned(v) == [raised |-> FALSE, exc |-> "none", value |-> v]
Raises(e) == [raised |-> TRUE, exc |-> e, value |-> <<>>]

Issue(t, d, l) == [type |-> t, detail |-> d, line |-> l]

SYNTAX_ERROR == <<"SYNTAX", "_ERROR">>
RUFF_MISSING == <<"RUFF", "_MISSING">>
RUFF_ERROR == <<"RUFF", "_ERROR">>

----------------------------------------------------------------------------
(* Analyzer adapters *)

\* compile(code): None, or the SyntaxError with its message and line
syntax_check(compiled) ==
    IF compiled.ok THEN <<>>
    ELSE <<Issue(SYNTAX_ERROR, compiled.msg,
                 IF compiled.lineno = <<>> \/ compiled.lineno = <<0>>
                 THEN <<>> ELSE compiled.lineno)>>

RuffIssue(f) ==
    Issue(GetOr(f.code, <<"RUFF">>), GetOr(f.message, <<"Lint">>), f.row)

run_ruff(out) ==
    IF out.exc = "FileNotFoundError"
    THEN Returned(<<Issue(RUFF_MISSING, <<"ruff not installed in venv">>, <<>>)>>)
    ELSE IF out.exc # "none"
    THEN Returned(<<Issue(RUFF_ERROR, <<out.exc>>, <<>>)>>)
    ELSE IF out.returncode \notin {0, 1}
    THEN Returned(<<Issue(RUFF_ERROR,
                          Strip(OrElse(out.stderr, <<"ruff failed">>)),
                          <<>>)>>)
    ELSE IF ~StdoutStripped(out.stdout) THEN Returned(<<>>)
    ELSE IF JsonLoadsRaises(out.stdout) THEN Raises("JSONDecodeError")
    ELSE Returned([i \in DOMAIN out.stdout.value |->
                        RuffIssue(out.stdout.value[i])])

\* first radon call: maintainability index, None unless a number is found
RadonMi(out) ==
    IF out.exc # "none" THEN <<>>
    ELSE IF ~(out.returncode = 0 /\ StdoutStripped(out.stdout)) THEN <<>>
    ELSE IF JsonLoadsRaises(out.stdout) THEN <<>>
    ELSE IF out.stdout.value.shape \in {"dict", "list"}
         THEN out.stdout.value.mi
         ELSE <<>>

Numbers(entries) ==
    LET idx == {i \in DOMAIN entries : entries[i] # <<>>}
        RECURSIVE Pick(_)
        Pick(i) == IF i > Len(entries) THEN <<>>
                   ELSE IF i \in idx THEN <<entries[i][1]>> \o Pick(i + 1)
                   ELSE Pick(i + 1)
    IN  Pick(1)

Zero == [avg_cc |-> <<0, 1>>, max_cc |-> <<0>>]
Unavailable == [avg_cc |-> <<>>, max_cc |-> <<>>]

\* second radon call: average and maximum cyclomatic complexity
RadonCc(out) ==
    IF out.exc # "none" THEN Unavailable
    ELSE IF ~(out.returncode = 0 /\ StdoutStripped(out.stdout)) THEN Zero
    ELSE IF JsonLoadsRaises(out.stdout) THEN Unavailable
    ELSE IF out.stdout.value.shape # "list" THEN Unavailable
    ELSE LET nums == Numbers(out.stdout.value.entries)
         IN  IF nums # <<>>
             THEN [avg_cc |-> <<SumSeq(nums), Len(nums)>>,
                   max_cc |-> <<MaxSeq(nums)>>]
             ELSE Zero

run_radon_metrics(outMi, outCc) ==
    [mi |-> RadonMi(outMi),
     avg_cc |-> RadonCc(outCc).avg_cc,
     max_cc |-> RadonCc(outCc).max_cc]

run_bandit(out) ==
    IF out.exc # "none" THEN <<>>
    ELSE IF out.returncode \notin {0, 1} THEN <<>>
    ELSE IF out.stdout.kind = "empty" THEN <<>>
    ELSE IF JsonLoadsRaises(out.stdout) THEN <<>>
    ELSE out.stdout.value

\* review(): the Issue a security finding is projected to
BanditIssue(f) ==
    Issue(GetOr(f.test_id, <<"B", "ANDIT">>),
          GetOr(f.issue_text, <<"Potential security issue">>),
          f.line_number)

----------------------------------------------------------------------------
(* The test heuristic: the two regular expressions of score_from and       *)
(* build_suggestions, matched on tokens                                    *)

\* tokens made of word characters (letters, digits, underscore)
WordTokens == {"x", "import", "pytest", "unittest", "def", "test_"}

\* \b next to a token that begins and ends with a word character
BoundaryBefore(s, i) == i = 1 \/ s[i - 1] \notin WordTokens
BoundaryAfter(s, i) == i = Len(s) \/ s[i + 1] \notin WordTokens

\* \s+ between positions i and j
SpacesBetween(s, i, j) ==
    /\ j > i + 1
    /\ \A k \in (i + 1)..(j - 1) : s[k] \in Whitespace

\* re.search(r"\bimport\s+(unittest|pytest)\b", code)
MatchImportTests(s) ==
    \E i \in DOMAIN s : \E j \in DOMAIN s :
        /\ s[i] = "import"
        /\ BoundaryBefore(s, i)
        /\ SpacesBetween(s, i, j)
        /\ s[j] \in {"unittest", "pytest"}
        /\ BoundaryAfter(s, j)

\* re.search(r"\bdef\s+test_", code)
MatchDefTest(s) ==
    \E i \in DOMAIN s : \E j \in DOMAIN s :
        /\ s[i] = "def"
        /\ BoundaryBefore(s, i)
        /\ SpacesBetween(s, i, j)
        /\ s[j] = "test_"

has_tests(s) == MatchImportTests(s) \/ MatchDefTest(s)

----------------------------------------------------------------------------
(* Score deriver *)

HasSyntaxError(iss) == \E i \in DOMAIN iss : iss[i].type = SYNTAX_ERROR

\* sev = (f.get("issue_severity") or "").upper()
Severity(f) == Upper(OrElse(Get(f.issue_severity), <<>>))

severityPenalty(f) ==
    IF Severity(f) = <<"HIGH">> THEN 20
    ELSE IF Severity(f) = <<"MEDIUM">> THEN 10
    ELSE 5

RECURSIVE Penalty(_)
Penalty(fs) ==
    IF fs = <<>> THEN 0 ELSE severityPenalty(Head(fs)) + Penalty(Tail(fs))

Readability(m) ==
    IF m.mi = <<>> THEN 0 ELSE RoundHalfEven(clamp(m.mi[1], 0, 1000), 10)

Complexity(m) ==
    IF m.avg_cc = <<>> THEN 0
    ELSE LET s == m.avg_cc[1]
             n == m.avg_cc[2]
         IN  IF s <= n THEN 95
             ELSE IF s <= 3 * n THEN 85
             ELSE IF s <= 6 * n THEN 70
             ELSE IF s <= 10 * n THEN 55
             ELSE 35

\* the score without its clamp
SecurityUnclamped(fs) == 95 - Penalty(fs)

Security(fs) == clamp(95 - Penalty(fs), 0, 95)

\* partial credit instead of 80
TestingHalfCredit(src) == IF has_tests(src) THEN 40 ELSE 20

Testing(src) == IF has_tests(src) THEN 80 ELSE 20

\* the syntax-error branch keeps the severity-based security score
score_fromKeepsSecurity(m, iss, fs, src) ==
    IF HasSyntaxError(iss)
    THEN [readability |-> 0, complexity |-> 0,
          security |-> Security(fs), testing |-> 0]
    ELSE [readability |-> Readability(m), complexity |-> Complexity(m),
          security |-> Security(fs), testing |-> Testing(src)]

score_from(m, iss, fs, src) ==
    IF HasSyntaxError(iss)
    THEN [readability |-> 0, complexity |-> 0,
          security |-> IF fs = <<>> THEN 0 ELSE 30, testing |-> 0]
    ELSE [readability |-> Readability(m), complexity |-> Complexity(m),
          security |-> Security(fs), testing |-> Testing(src)]

----------------------------------------------------------------------------
(* Suggestion builder *)

SuggSyntax == <<"Fix the syntax error first so static analysis can run cleanly.">>
SuggF401 == <<"Remove unused imports (ruff F401).">>
SuggSpacing == <<"Apply PEP 8 spacing around functions/classes.">>
SuggE501 == <<"Wrap long lines (E501) to improve readability.">>
SuggBandit == <<"Review potential security issues flagged by Bandit.">>
SuggComplexity == <<"Refactor large/nested functions to reduce cyclomatic complexity.">>
SuggMaintain == <<"Increase maintainability: simplify logic, extract helpers, add docstrings.">>
SuggHigh(n) == <<"Address ">> \o IntText(n) \o <<" HIGH-severity Bandit finding(s) immediately.">>
SuggHarden == <<"Resolve Bandit MED/LOW findings as part of hardening.">>
SuggTests == <<"Add unit tests (pytest or unittest) for critical paths and edge cases.">>
SuggFallback == <<"Looks good. Consider docstrings and a few tests to lock behavior in.">>

\* codes = {i.get("type") for i in issues if i.get("type")}
Codes(iss) ==
    {iss[i].type : i \in {k \in DOMAIN iss : OrElse(iss[k].type, <<>>) # <<>>}}

HighFindings(fs) == {i \in DOMAIN fs : Severity(fs[i]) = <<"HIGH">>}

When(cond, text) == IF cond THEN <<text>> ELSE <<>>

Rules(m, iss, fs, src) ==
       When(HasSyntaxError(iss), SuggSyntax)
    \o When(<<"F401">> \in Codes(iss), SuggF401)
    \o When(<<"E302">> \in Codes(iss) \/ <<"E305">> \in Codes(iss), SuggSpacing)
    \o When(<<"E501">> \in Codes(iss), SuggE501)
    \o When(\E c \in Codes(iss) : StartsWith(c, <<"B">>), SuggBandit)
    \o When(m.avg_cc # <<>> /\ m.avg_cc[1] > 6 * m.avg_cc[2], SuggComplexity)
    \o When(m.mi # <<>> /\ m.mi[1] < 600, SuggMaintain)
    \o (IF HighFindings(fs) # {}
        THEN <<SuggHigh(Cardinality(HighFindings(fs)))>>
        ELSE When(fs # <<>>, SuggHarden))
    \o When(~has_tests(src), SuggTests)

\* the fallback is forgotten
build_suggestionsNoFallback(m, iss, fs, src) == Rules(m, iss, fs, src)

build_suggestions(m, iss, fs, src) ==
    IF Rules(m, iss, fs, src) = <<>>
    THEN <<SuggFallback>>
    ELSE Rules(m, iss, fs, src)

----------------------------------------------------------------------------
(* Summary formatter *)

NA == <<"n/a">>

CxLabel(m) ==
    IF m.avg_cc = <<>> THEN NA
    ELSE LET s == m.avg_cc[1]
             n == m.avg_cc[2]
         IN  IF s = 0 THEN <<"trivial">>
             ELSE IF s <= 3 * n THEN <<"low">>
             ELSE IF s <= 6 * n THEN <<"moderate">>
             ELSE IF s <= 10 * n THEN <<"high">>
             ELSE <<"very high">>

\* position of the lint count and of the security count in the summary
LintAt(txt) == CHOOSE i \in DOMAIN txt : txt[i] = " | Ruff: "
BanditAt(txt) == CHOOSE i \in DOMAIN txt : txt[i] = " issues | Bandit: "

pretty_summary(m, lint_count, sec_count) ==
       <<"Maintainability Index: ">>
    \o (IF m.mi = <<>> THEN NA ELSE Fixed0(m.mi[1], 10))
    \o <<" | Complexity: avg ">>
    \o (IF m.avg_cc = <<>> THEN NA ELSE Fixed1(m.avg_cc[1], m.avg_cc[2]))
    \o <<" (">> \o CxLabel(m) \o <<"), max ">>
    \o (IF m.max_cc = <<>> THEN NA ELSE Fixed1(m.max_cc[1], 1))
    \o <<" | Ruff: ">> \o IntText(lint_count)
    \o <<" issues | Bandit: ">> \o IntText(sec_count)
    \o <<" findings">>

\* review(): lint_count
LintCount(iss) ==
    Cardinality({i \in DOMAIN iss :
                    ~StartsWith(OrElse(iss[i].type, <<>>), <<"SYNTAX">>)})

----------------------------------------------------------------------------
(* Execution sandbox *)

EncodeRaises(src) == \E i \in DOMAIN src : src[i] = "\\ud800"

\* the text run_code_output builds from the run of ["python", path]
SandboxText(out) ==
    IF out.exc # "none" THEN <<"Runtime error: ", out.exc>>
    ELSE LET so == Strip(out.stdout)
             se == Strip(out.stderr)
         IN  IF so # <<>> /\ se # <<>> THEN so \o <<"\n", "ERR: ">> \o se
             ELSE IF so # <<>> THEN so
             ELSE IF se # <<>> THEN <<"ERR: ">> \o se
             ELSE <<"(no output)">>

----------------------------------------------------------------------------
(* Inputs of the /review flow: request bodies and tool outcomes *)

CodeValues ==
    {MissingVal, <<" ", "\n">>, <<" ", "x", "\n">>, <<"\\ud800">>,
     <<"import", " ", "pytest">>}

FilenameValues ==
    {MissingVal, <<" ">>, <<"a", ".py">>, <<"A", ".PY", " ">>, <<"a", ".txt">>}

Requests == [code : CodeValues, filename : FilenameValues]

CompileOutcomes ==
    {[ok |-> TRUE, msg |-> <<>>, lineno |-> <<>>],
     [ok |-> FALSE, msg |-> <<"invalid syntax">>, lineno |-> <<1>>]}

StderrTexts == {<<>>, <<"boom", "\n">>}

RuffFindings ==
    {[code |-> c, message |-> <<"msg">>, row |-> <<1>>] :
        c \in {<<"F401">>, <<"B", "006">>, NoneVal}}
    \cup {[code |-> MissingVal, message |-> MissingVal, row |-> <<>>]}

RuffOutcomes ==
    {Raised("FileNotFoundError"), Raised("TimeoutExpired")}
    \cup {Completed(2, EmptyOut, e) : e \in StderrTexts}
    \cup {Completed(0, so, <<>>) : so \in {BlankOut, GarbageOut}}
    \cup {Completed(IF fs = <<>> THEN 0 ELSE 1, JsonOut(fs), <<>>) :
            fs \in SeqsUpTo(RuffFindings, MaxLint)}

MiTenths == {455, 875}

MiReports ==
    {[shape |-> "absent", mi |-> <<>>], [shape |-> "dict", mi |-> <<>>]}
    \cup {[shape |-> sh, mi |-> <<m>>] : sh \in {"dict", "list"}, m \in MiTenths}

RadonMiOutcomes ==
    {Raised("FileNotFoundError"), Raised("TimeoutExpired"),
     Completed(1, EmptyOut, <<"boom", "\n">>),
     Completed(0, BlankOut, <<>>), Completed(0, GarbageOut, <<>>)}
    \cup {Completed(0, JsonOut(v), <<>>) : v \in MiReports}

CcEntries == {<<1>>, <<7>>, <<>>}

CcReports ==
    {[shape |-> "error", entries |-> <<>>]}
    \cup {[shape |-> "list", entries |-> es] : es \in SeqsUpTo(CcEntries, MaxEntries)}

RadonCcOutcomes ==
    {Raised("FileNotFoundError"), Raised("TimeoutExpired"),
     Completed(1, EmptyOut, <<"boom", "\n">>),
     Completed(0, BlankOut, <<>>), Completed(0, GarbageOut, <<>>)}
    \cup {Completed(0, JsonOut(v), <<>>) : v \in CcReports}

Finding(id, text, line, sev) ==
    [test_id |-> id, issue_text |-> text, line_number |-> line,
     issue_severity |-> sev]

BareFinding == Finding(MissingVal, MissingVal, <<>>, MissingVal)

BanditFindings ==
    {Finding(<<"B", "602">>, <<"shell=True">>, <<2>>, sev) :
        sev \in {<<"HIGH">>, <<"LOW">>}}
    \cup {BareFinding}

BanditOutcomes ==
    {Raised("FileNotFoundError"), Raised("TimeoutExpired"),
     Completed(2, EmptyOut, <<"boom", "\n">>),
     Completed(0, EmptyOut, <<>>), Completed(0, GarbageOut, <<>>)}
    \cup {Completed(IF fs = <<>> THEN 0 ELSE 1, JsonOut(fs), <<>>) :
            fs \in SeqsUpTo(BanditFindings, MaxFindings)}

\* the run of ["python", path]: stdout and stderr are plain text here
SandboxOutcomes ==
    {[exc |-> "TimeoutExpired", stdout |-> <<>>, stderr |-> <<>>],
     [exc |-> "none", stdout |-> <<"1", "\n">>, stderr |-> <<>>],
     [exc |-> "none", stdout |-> <<"1", "\n">>, stderr |-> <<"Traceback", "\n">>],
     [exc |-> "none", stdout |-> <<"\n">>, stderr |-> <<>>]}

----------------------------------------------------------------------------
(* The /review handler *)

StepOrder == <<"syntax", "lint", "metrics", "security", "derive", "sandbox">>

NoMetrics == [mi |-> <<>>, avg_cc |-> <<>>, max_cc |-> <<>>]
NoScores == [readability |-> 0, complexity |-> 0, security |-> 0, testing |-> 0]
NoResponse == [status |-> 0, body |-> [none |-> TRUE]]
NothingObserved ==
    [syntax |-> "-", ruff |-> "-", ruffStderr |-> <<>>, lintFound |-> 0,
     radonMi |-> "-", radonCc |-> "-", bandit |-> "-", sandbox |-> "-"]

NoCodeResponse ==
    [status |-> 400, body |-> [error |-> <<"No code provided.">>]]

NonPythonResponse ==
    [status |-> 200,
     body |-> [summary |-> <<"Non-Python file - analysis is only enabled for .py in this MVP.">>,
               issues |-> <<>>,
               scores |-> NoScores,
               output |-> <<"(not run - non-Python file)">>,
               suggestions |-> <<<<"Paste a .py file to get full analysis.">>>>]]

\* an exception that leaves review(): the framework answers 500
Unhandled(e) == [status |-> 500, body |-> [exception |-> e]]

\* code = (data.get("code") or "").strip()
CodeOf(req) == Strip(OrElse(req.code, <<>>))

\* filename = (data.get("filename") or "snippet.py").strip()
FilenameOf(req) == Strip(OrElse(req.filename, <<"snippet", ".py">>))

\* the extension is not checked
IsPythonFileUnchecked(filename) == TRUE

\* filename.lower().endswith(".py")
IsPythonFile(filename) == EndsWith(Lower(filename), <<".py">>)

\* os.unlink(path) in the finally blocks
Unlink(fs, path) == fs \ {path}

ReviewInit ==
    /\ pc = "idle"
    /\ request = [code |-> MissingVal, filename |-> MissingVal]
    /\ code = <<>>
    /\ files = {}
    /\ issues = <<>>
    /\ metrics = NoMetrics
    /\ sec_findings = <<>>
    /\ scores = NoScores
    /\ suggestions = <<>>
    /\ summary = <<>>
    /\ response = NoResponse
    /\ trace = <<>>
    /\ observed = NothingObserved

\* lines 32-55: validation, then the analysis file is created and written
Review ==
    /\ pc = "idle"
    /\ \E req \in Requests :
        /\ request' = req
        /\ code' = CodeOf(req)
        /\ IF CodeOf(req) = <<>>
           THEN /\ response' = NoCodeResponse
                /\ pc' = "done"
                /\ files' = files
           ELSE IF ~IsPythonFile(FilenameOf(req))
           THEN /\ response' = NonPythonResponse
                /\ pc' = "done"
                /\ files' = files
           ELSE IF EncodeRaises(CodeOf(req))
           THEN /\ response' = Unhandled("UnicodeEncodeError")
                /\ pc' = "done"
                /\ files' = files \cup {"analysis"}
           ELSE /\ response' = response
                /\ pc' = "syntax"
                /\ files' = files \cup {"analysis"}
    /\ issues' = <<>>
    /\ metrics' = NoMetrics
    /\ sec_findings' = <<>>
    /\ UNCHANGED <<scores, suggestions, summary, trace, observed>>
    /\ UNCHANGED chatVars

\* lines 58-61
SyntaxStep ==
    /\ pc = "syntax"
    /\ trace' = Append(trace, "syntax")
    /\ \E compiled \in CompileOutcomes :
        /\ issues' = issues \o syntax_check(compiled)
        /\ observed' = [observed EXCEPT
                           !.syntax = IF compiled.ok THEN "ok" ELSE "error"]
    /\ pc' = "lint"
    /\ UNCHANGED <<request, code, files, metrics, sec_findings, scores,
                   suggestions, summary, response>>
    /\ UNCHANGED chatVars

\* lines 63-64; an exception leaves through the finally block of lines 94-98
LintStep ==
    /\ pc = "lint"
    /\ trace' = Append(trace, "lint")
    /\ \E out \in RuffOutcomes :
        /\ observed' = [observed EXCEPT
                           !.ruff = OutcomeClass(out),
                           !.ruffStderr = out.stderr,
                           !.lintFound = Len(out.stdout.value)]
        /\ IF run_ruff(out).raised
           THEN /\ files' = Unlink(files, "analysis")
                /\ response' = Unhandled(run_ruff(out).exc)
                /\ pc' = "done"
                /\ issues' = issues
           ELSE /\ issues' = issues \o run_ruff(out).value
                /\ pc' = "metrics"
                /\ UNCHANGED <<files, response>>
    /\ UNCHANGED <<request, code, metrics, sec_findings, scores, suggestions,
                   summary>>
    /\ UNCHANGED chatVars

\* lines 66-67
MetricsStep ==
    /\ pc = "metrics"
    /\ trace' = Append(trace, "metrics")
    /\ \E outMi \in RadonMiOutcomes : \E outCc \in RadonCcOutcomes :
        /\ metrics' = run_radon_metrics(outMi, outCc)
        /\ observed' = [observed EXCEPT
                           !.radonMi = OutcomeClass(outMi),
                           !.radonCc = OutcomeClass(outCc)]
    /\ pc' = "security"
    /\ UNCHANGED <<request, code, files, issues, sec_findings, scores,
                   suggestions, summary, response>>
    /\ UNCHANGED chatVars

\* lines 69-76
SecurityStep ==
    /\ pc = "security"
    /\ trace' = Append(trace, "security")
    /\ \E out \in BanditOutcomes :
        /\ sec_findings' = run_bandit(out)
        /\ issues' = issues \o [i \in DOMAIN run_bandit(out) |->
                                    BanditIssue(run_bandit(out)[i])]
        /\ observed' = [observed EXCEPT !.bandit = OutcomeClass(out)]
    /\ pc' = "derive"
    /\ UNCHANGED <<request, code, files, metrics, scores, suggestions,
                   summary, response>>
    /\ UNCHANGED chatVars

\* lines 78-82
DeriveStep ==
    /\ pc = "derive"
    /\ trace' = Append(trace, "derive")
    /\ scores' = score_from(metrics, issues, sec_findings, code)
    /\ suggestions' = build_suggestions(metrics, issues, sec_findings, code)
    /\ summary' = pretty_summary(metrics, LintCount(issues), Len(sec_findings))
    /\ pc' = "sandbox"
    /\ UNCHANGED <<request, code, files, issues, metrics, sec_findings,
                   response, observed>>
    /\ UNCHANGED chatVars

\* run_code_output (lines 317-341): the files left by one call that started with fs
RunCodeFiles(fs, src) ==
    IF EncodeRaises(src)
    THEN fs \cup {"exec"}
    ELSE Unlink(fs \cup {"exec"}, "exec")

\* lines 84-98: the sandboxed run, the return and the finally block
SandboxStep ==
    /\ pc = "sandbox"
    /\ trace' = Append(trace, "sandbox")
    /\ \E out \in SandboxOutcomes :
        /\ observed' = [observed EXCEPT
                           !.sandbox = IF out.exc = "none" THEN "ran" ELSE "raised"]
        /\ response' =
              IF EncodeRaises(code)
              THEN Unhandled("UnicodeEncodeError")
              ELSE [status |-> 200,
                    body |-> [summary |-> summary,
                              issues |-> issues,
                              scores |-> scores,
                              output |-> SandboxText(out),
                              suggestions |-> suggestions]]
    /\ files' = Unlink(RunCodeFiles(files, code), "analysis")
    /\ pc' = "done"
    /\ UNCHANGED <<request, code, issues, metrics, sec_findings, scores,
                   suggestions, summary>>
    /\ UNCHANGED chatVars

ReviewNext ==
    \/ Review
    \/ SyntaxStep
    \/ LintStep
    \/ MetricsStep
    \/ SecurityStep
    \/ DeriveStep
    \/ SandboxStep

----------------------------------------------------------------------------
(* The /chat handler *)

Message(r, c) == [role |-> r, content |-> c]

Roles == {<<"user">>, <<"assistant">>, MissingVal}
Contents == {MissingVal, NoneVal, <<" ", "hi", " ">>, <<"yo">>}
Messages == {Message(r, c) : r \in Roles, c \in Contents}
ApiKeys == {NoneVal, <<>>, <<"sk-1">>}

ChatRequests == [messages : SeqsUpTo(Messages, MaxMsgs), api_key : ApiKeys]

\* requests.post(...) to the local service, then r.ok and r.json()
OllamaOutcome(e, ok, json, resp) ==
    [exc |-> e, ok |-> ok, json |-> json, response |-> resp]

NotCalled == OllamaOutcome("-", FALSE, FALSE, MissingVal)

OllamaOutcomes ==
    {OllamaOutcome("ConnectionError", FALSE, FALSE, MissingVal),
     OllamaOutcome("none", FALSE, FALSE, MissingVal),
     OllamaOutcome("none", TRUE, FALSE, MissingVal)}
    \cup {OllamaOutcome("none", TRUE, TRUE, r) :
            r \in {MissingVal, NoneVal, <<" ">>, <<" ", "pong", "\n">>}}

\* client.chat.completions.create(...), then resp.choices[0].message.content
OpenAIOutcome(e, reply) == [exc |-> e, reply |-> reply]

OpenAINotCalled == OpenAIOutcome("-", NoneVal)

OpenAIOutcomes ==
    {OpenAIOutcome("APIError", NoneVal)}
    \cup {OpenAIOutcome("none", r) : r \in {NoneVal, <<>>, <<" ", "ok">>}}

\* next((m.get("content","") for m in reversed(msgs) if m.get("role")=="user"), "")
RECURSIVE LastUserContent(_)
LastUserContent(msgs) ==
    IF msgs = <<>> THEN <<>>
    ELSE IF Get(msgs[Len(msgs)].role) = <<"user">>
         THEN GetOr(msgs[Len(msgs)].content, <<>>)
         ELSE LastUserContent(SubSeq(msgs, 1, Len(msgs) - 1))

SystemMessage ==
    Message(<<"system">>,
            <<"You are a helpful coding assistant. Keep answers short.">>)

\* lines 388-393
RECURSIVE History(_)
History(msgs) ==
    IF msgs = <<>> THEN <<>>
    ELSE LET m == Head(msgs)
             content == Strip(OrElse(Get(m.content), <<>>))
         IN  (IF content # <<>>
              THEN <<Message(OrElse(Get(m.role), <<"user">>), content)>>
              ELSE <<>>) \o History(Tail(msgs))

Conversation(msgs) == <<SystemMessage>> \o History(msgs)

\* reply = (j.get("response") or "").strip()
OllamaReply(out) == Strip(OrElse(Get(out.response), <<>>))

\* tier 1 ends the request
OllamaSucceeds(out) ==
    /\ out.exc = "none"
    /\ out.ok
    /\ out.json
    /\ OllamaReply(out) # <<>>

\* tier 2 ends the request
OpenAISucceeds(out) == out.exc = "none" /\ OrElse(out.reply, <<>>) # <<>>

Reply(text, source) ==
    [status |-> 200, body |-> [reply |-> text, source |-> source]]

ChatInit ==
    /\ chatPc = "idle"
    /\ chatRequest = [messages |-> <<>>, api_key |-> NoneVal]
    /\ last_user = <<>>
    /\ conv = <<>>
    /\ chatResponse = NoResponse
    /\ chatTrace = <<>>
    /\ chatObserved = [ollama |-> NotCalled, prompt |-> <<>>,
                       openai |-> OpenAINotCalled]

\* lines 355-357
Chat ==
    /\ chatPc = "idle"
    /\ \E req \in ChatRequests :
        /\ chatRequest' = req
        /\ IF LastUserContent(req.messages) = NoneVal
           THEN /\ chatResponse' = Unhandled("AttributeError")
                /\ chatPc' = "done"
                /\ last_user' = last_user
           ELSE /\ last_user' = Strip(LastUserContent(req.messages))
                /\ chatPc' = "tier1"
                /\ chatResponse' = chatResponse
    /\ UNCHANGED <<conv, chatTrace, chatObserved>>
    /\ UNCHANGED reviewVars

\* lines 359-380
Tier1 ==
    /\ chatPc = "tier1"
    /\ chatTrace' = Append(chatTrace, "ollama")
    /\ \E out \in OllamaOutcomes :
        /\ chatObserved' = [chatObserved EXCEPT
                               !.ollama = out,
                               !.prompt = OrElse(last_user, <<"Hello">>)]
        /\ IF OllamaSucceeds(out)
           THEN /\ chatResponse' = Reply(OllamaReply(out), "ollama")
                /\ chatPc' = "done"
           ELSE /\ chatResponse' = chatResponse
                /\ chatPc' = "tier2"
    /\ UNCHANGED <<chatRequest, last_user, conv>>
    /\ UNCHANGED reviewVars

\* lines 382-403
Tier2 ==
    /\ chatPc = "tier2"
    /\ IF OrElse(chatRequest.api_key, <<>>) = <<>>
       THEN /\ chatPc' = "echo"
            /\ UNCHANGED <<conv, chatTrace, chatObserved, chatResponse>>
       ELSE /\ chatTrace' = Append(chatTrace, "openai")
            /\ conv' = Conversation(chatRequest.messages)
            /\ \E out \in OpenAIOutcomes :
                /\ chatObserved' = [chatObserved EXCEPT !.openai = out]
                /\ IF OpenAISucceeds(out)
                   THEN /\ chatResponse' = Reply(out.reply, "openai")
                        /\ chatPc' = "done"
                   ELSE /\ chatResponse' = chatResponse
                        /\ chatPc' = "echo"
    /\ UNCHANGED <<chatRequest, last_user>>
    /\ UNCHANGED reviewVars

\* lines 405-406
Echo ==
    /\ chatPc = "echo"
    /\ chatTrace' = Append(chatTrace, "echo")
    /\ chatResponse' = Reply(<<"You said: ">> \o last_user, "echo")
    /\ chatPc' = "done"
    /\ UNCHANGED <<chatRequest, last_user, conv, chatObserved>>
    /\ UNCHANGED reviewVars

ChatNext ==
    \/ Chat
    \/ Tier1
    \/ Tier2
    \/ Echo

----------------------------------------------------------------------------
(* Specifications *)

Init == ReviewInit /\ ChatInit

Next == ReviewNext

\* one /review request
Spec == Init /\ [][Next]_vars

\* one /chat request
SpecChat == Init /\ [][ChatNext]_vars

\* score_from, build_suggestions and pretty_summary applied to inputs drawn
\* from bounded sets: the request stands at the derivation step
DerivationInit(src, iss, m, fs) ==
    /\ pc = "derive"
    /\ request = [code |-> src, filename |-> MissingVal]
    /\ code = src
    /\ files = {"analysis"}
    /\ issues = iss
    /\ metrics = m
    /\ sec_findings = fs
    /\ scores = NoScores
    /\ suggestions = <<>>
    /\ summary = <<>>
    /\ response = NoResponse
    /\ trace = SubSeq(StepOrder, 1, 4)
    /\ observed = NothingObserved
    /\ ChatInit

SyntaxIssue == Issue(SYNTAX_ERROR, <<"invalid syntax">>, <<1>>)

CodeTokens == {" ", "x", "(", "import", "pytest", "unittest", "def", "test_"}

TestingInit ==
    \E src \in SeqsUpTo(CodeTokens, MaxCodeLen) :
        \E iss \in {<<>>, <<SyntaxIssue>>} :
            DerivationInit(src, iss, NoMetrics, <<>>)

\* the testing heuristic over every source text up to MaxCodeLen tokens
SpecTesting == TestingInit /\ [][DeriveStep]_vars

SeverityLabels ==
    {<<"HIGH">>, <<"MEDIUM">>, <<"LOW">>, <<"high">>, <<>>, MissingVal}

SecurityInit ==
    \E fs \in SeqsUpTo({Finding(<<"B", "602">>, <<"shell=True">>, <<2>>, sev) :
                            sev \in SeverityLabels}, MaxScoreFindings) :
        \E iss \in {<<>>, <<SyntaxIssue>>} :
            DerivationInit(<<"x">>, iss, NoMetrics, fs)

\* the security score over every findings list up to MaxScoreFindings
SpecSecurity == SecurityInit /\ [][DeriveStep]_vars

SuggTypes ==
    {SYNTAX_ERROR, <<"F401">>, <<"E302">>, <<"E305">>, <<"E501">>,
     <<"B", "602">>, RUFF_MISSING, NoneVal}

SuggMetrics ==
    {[mi |-> mi, avg_cc |-> cc, max_cc |-> IF cc = <<>> THEN <<>> ELSE <<7>>] :
        mi \in {<<>>, <<455>>, <<600>>},
        cc \in {<<>>, <<6, 1>>, <<13, 2>>}}

SuggestInit ==
    \E iss \in SeqsUpTo({Issue(t, <<"msg">>, <<>>) : t \in SuggTypes},
                        MaxSuggIssues) :
        \E fs \in SeqsUpTo({Finding(<<"B", "602">>, <<"shell=True">>, <<2>>, sev) :
                                sev \in {<<"HIGH">>, <<"LOW">>, <<"high">>}},
                           MaxSuggFindings) :
            \E m \in SuggMetrics :
                \E src \in {<<"x">>, <<"def", " ", "test_", "x">>} :
                    DerivationInit(src, iss, m, fs)

\* the suggestion builder over issue, metrics and findings combinations
SpecSuggest == SuggestInit /\ [][DeriveStep]_vars

----------------------------------------------------------------------------
(* Properties *)

Finished == pc = "done"

FullResult ==
    /\ response.status = 200
    /\ DOMAIN response.body =
          {"summary", "issues", "scores", "output", "suggestions"}

\* the filename as sent ends in .py
SentPyFilename ==
    /\ request.filename # MissingVal
    /\ EndsWith(request.filename, <<".py">>)

\* C1: a /review request with non-empty code and a filename ending in .py
\* always ends with a normal ReviewResult of five fields once the analysis
\* has started, whatever the analyzers and the sandboxed run did.
ReviewAlwaysReturnsResult ==
    (Finished /\ CodeOf(request) # <<>> /\ SentPyFilename /\ trace # <<>>)
        => FullResult

IssuesEnding(suffix) ==
    {i \in DOMAIN issues :
        /\ issues[i].type # SYNTAX_ERROR
        /\ EndsWith(issues[i].type, <<suffix>>)}

AbsentTools ==
    {t \in {"ruff", "radon", "bandit"} :
        \/ t = "ruff" /\ observed.ruff = "absent"
        \/ t = "radon" /\ "absent" \in {observed.radonMi, observed.radonCc}
        \/ t = "bandit" /\ observed.bandit = "absent"}

StatusTools ==
    {t \in {"ruff", "radon", "bandit"} :
        \/ t = "ruff" /\ observed.ruff = "status"
        \/ t = "radon" /\ "status" \in {observed.radonMi, observed.radonCc}
        \/ t = "bandit" /\ observed.bandit = "status"}

\* C2: in a completed review every tool whose binary is absent has added
\* exactly one *_MISSING issue, and every tool that exited with an
\* unexpected status has added one *_ERROR issue (ruff's carrying stderr).
ToolFailuresReported ==
    (Finished /\ trace = StepOrder) =>
        /\ FullResult
        /\ Cardinality(IssuesEnding("_MISSING")) = Cardinality(AbsentTools)
        /\ Cardinality(IssuesEnding("_ERROR")) >= Cardinality(StatusTools)
        /\ (observed.ruff = "status" /\ observed.ruffStderr # <<>>) =>
               \E i \in IssuesEnding("_ERROR") :
                   issues[i].detail = Strip(observed.ruffStderr)

\* C3: once the request has ended, no temporary source file it created
\* exists any more.
NoTempFileLeft == Finished => files = {}

IsPrefix(t, order) ==
    /\ Len(t) <= Len(order)
    /\ t = SubSeq(order, 1, Len(t))

ShortCircuit(resp) ==
    /\ response.status = resp.status
    /\ response = resp
    /\ trace = <<>>
    /\ files = {}

\* C4 as stated: the started steps are a prefix of the fixed order, empty
\* code gives the 400 response with nothing started, and no step is ever
\* started for a filename that does not end in .py.
StepsInOrderSentFilename ==
    /\ IsPrefix(trace, StepOrder)
    /\ (Finished /\ CodeOf(request) = <<>>) => ShortCircuit(NoCodeResponse)
    /\ (pc # "idle" /\ CodeOf(request) # <<>> /\ ~SentPyFilename) =>
           trace = <<>>

\* the filename review() tests: "snippet.py" when missing or empty, trimmed,
\* lower-cased
EffectivePyFilename ==
    EndsWith(Lower(Strip(IF request.filename \in {MissingVal, NoneVal, <<>>}
                         THEN <<"snippet", ".py">>
                         ELSE request.filename)),
             <<".py">>)

\* C4 amended: as C4, the filename being the one review() tests (defaulted
\* to snippet.py when missing or empty, trimmed, compared without case).
StepsInOrder ==
    /\ IsPrefix(trace, StepOrder)
    /\ (Finished /\ CodeOf(request) = <<>>) => ShortCircuit(NoCodeResponse)
    /\ (Finished /\ CodeOf(request) # <<>> /\ ~EffectivePyFilename) =>
           ShortCircuit(NonPythonResponse)

StepsInOrderWitness ==
    /\ Finished
    /\ CodeOf(request) # <<>>
    /\ ~EffectivePyFilename
    /\ response.status = 200

ChatFinished == chatPc = "done"

LocalSuccess ==
    /\ chatObserved.ollama.exc = "none"
    /\ chatObserved.ollama.ok
    /\ chatObserved.ollama.json
    /\ chatObserved.ollama.response \notin {MissingVal, NoneVal}
    /\ Strip(chatObserved.ollama.response) # <<>>

HostedSuccess ==
    /\ chatRequest.api_key \notin {NoneVal, <<>>}
    /\ chatObserved.openai.exc = "none"
    /\ chatObserved.openai.reply \notin {NoneVal, <<>>}

\* C5: every /chat request ends with a reply; its source is ollama exactly
\* when the local call succeeded with text, else openai exactly when a key
\* is set and the hosted call replied, else the echo of the last user
\* message; the tiers are attempted in order, each after the earlier failed.
ChatFirstSuccessWins ==
    /\ chatTrace \in {<<>>, <<"ollama">>, <<"ollama", "openai">>,
                      <<"ollama", "echo">>, <<"ollama", "openai", "echo">>}
    /\ (chatTrace # <<>> /\ chatTrace[Len(chatTrace)] = "openai") => ~LocalSuccess
    /\ (chatTrace # <<>> /\ chatTrace[Len(chatTrace)] = "echo") =>
           (~LocalSuccess /\ ~HostedSuccess)
    /\ ChatFinished =>
        /\ chatResponse.status = 200
        /\ chatResponse.body.source = "ollama" <=> LocalSuccess
        /\ chatResponse.body.source = "openai" <=> (~LocalSuccess /\ HostedSuccess)
        /\ chatResponse.body.source = "echo" <=> (~LocalSuccess /\ ~HostedSuccess)
        /\ chatResponse.body.source = "echo" =>
               chatResponse.body.reply = <<"You said: ">> \o last_user

\* the text contains "import pytest"
ContainsImportPytest(s) ==
    \E i \in DOMAIN s :
        /\ i + 2 <= Len(s)
        /\ SubSeq(s, i, i + 2) = <<"import", " ", "pytest">>

Derived == pc \in {"sandbox", "done"}

\* C6 as stated: a source containing "import pytest" has testing = 80,
\* whatever the issues.
TestingIs80WithImportPytest ==
    (Derived /\ ContainsImportPytest(code)) => scores.testing = 80

\* "import pytest" stands as whole words in the text
ImportPytestAsWords(s) ==
    \E i \in DOMAIN s :
        /\ i + 2 <= Len(s)
        /\ SubSeq(s, i, i + 2) = <<"import", " ", "pytest">>
        /\ (i = 1 \/ s[i - 1] \in {" ", "\n", "("})
        /\ (i + 2 = Len(s) \/ s[i + 3] \in {" ", "\n", "("})

\* C6 amended: when "import pytest" stands as whole words in the source
\* and no issue is a SYNTAX_ERROR, testing = 80; with a SYNTAX_ERROR issue
\* testing = 0.
TestingIs80 ==
    /\ (Derived /\ ImportPytestAsWords(code)
           /\ \A i \in DOMAIN issues : issues[i].type # SYNTAX_ERROR)
        => scores.testing = 80
    /\ (Derived /\ \E i \in DOMAIN issues : issues[i].type = SYNTAX_ERROR)
        => scores.testing = 0

TestingIs80Witness ==
    /\ Derived
    /\ ImportPytestAsWords(code)
    /\ issues = <<>>
    /\ Len(code) > 3

\* C7: when the source fails to parse, the response has exactly one
\* SYNTAX_ERROR issue and the scores 0, 0, 0 and security 30 with security
\* findings, 0 without.
SyntaxErrorCollapsesScores ==
    (Finished /\ observed.syntax = "error" /\ response.status = 200) =>
        /\ Cardinality({i \in DOMAIN response.body.issues :
                           response.body.issues[i].type = SYNTAX_ERROR}) = 1
        /\ response.body.scores =
              [readability |-> 0, complexity |-> 0, testing |-> 0,
               security |-> IF sec_findings = <<>> THEN 0 ELSE 30]

SyntaxErrorWitness ==
    /\ Finished
    /\ observed.syntax = "error"
    /\ response.status = 200
    /\ sec_findings # <<>>
    /\ observed.lintFound > 0

NoSyntaxIssue == \A i \in DOMAIN issues : issues[i].type # SYNTAX_ERROR

\* the penalty the claim gives a finding: nothing for an empty or missing label
StatedPenalty(f) ==
    IF f.issue_severity \in {MissingVal, NoneVal, <<>>} THEN 0
    ELSE IF f.issue_severity = <<"HIGH">> THEN 20
    ELSE IF f.issue_severity = <<"MEDIUM">> THEN 10
    ELSE 5

\* the penalty of the amended claim: the label is compared without case,
\* and an empty or missing label costs 5 like any other
AmendedPenalty(f) ==
    IF f.issue_severity \in {<<"HIGH">>, <<"high">>} THEN 20
    ELSE IF f.issue_severity \in {<<"MEDIUM">>, <<"medium">>} THEN 10
    ELSE 5

RECURSIVE Total(_, _)
Total(P(_), fs) == IF fs = <<>> THEN 0 ELSE P(Head(fs)) + Total(P, Tail(fs))

Clamped(v) == IF v < 0 THEN 0 ELSE IF v > 95 THEN 95 ELSE v

\* C8 as stated: security = 95 - sum of 20 (HIGH), 10 (MEDIUM), 5 (other
\* non-empty label), 0 (empty or missing label), clamped to [0, 95].
SecurityScoreStated ==
    (Derived /\ NoSyntaxIssue) =>
        scores.security = Clamped(95 - Total(StatedPenalty, sec_findings))

\* C8 amended: security = 95 - sum of 20 (HIGH, any case), 10 (MEDIUM, any
\* case), 5 (any other label, an empty or missing one included), clamped
\* to [0, 95]; so it is 95 without findings and always within 0..95.
SecurityScore ==
    (Derived /\ NoSyntaxIssue) =>
        /\ scores.security = Clamped(95 - Total(AmendedPenalty, sec_findings))
        /\ scores.security \in 0..95
        /\ sec_findings = <<>> => scores.security = 95

SecurityScoreWitness ==
    /\ Derived
    /\ NoSyntaxIssue
    /\ Total(AmendedPenalty, sec_findings) > 95
    /\ scores.security = 0
    /\ \E i \in DOMAIN sec_findings :
           sec_findings[i].issue_severity = <<"high">>

TypeIn(types) == \E i \in DOMAIN issues : issues[i].type \in types

\* the condition of each of the nine rules, on the inputs of build_suggestions
RuleHolds(k) ==
    CASE k = 1 -> TypeIn({SYNTAX_ERROR})
      [] k = 2 -> TypeIn({<<"F401">>})
      [] k = 3 -> TypeIn({<<"E302">>, <<"E305">>})
      [] k = 4 -> TypeIn({<<"E501">>})
      [] k = 5 -> \E i \in DOMAIN issues :
                     /\ issues[i].type # NoneVal
                     /\ issues[i].type # <<>>
                     /\ issues[i].type[1] = "B"
      [] k = 6 -> metrics.avg_cc # <<>> /\ metrics.avg_cc[1] > 6 * metrics.avg_cc[2]
      [] k = 7 -> metrics.mi # <<>> /\ metrics.mi[1] < 600
      [] k = 8 -> sec_findings # <<>>
      [] k = 9 -> ~has_tests(code)

HighCount ==
    Cardinality({i \in DOMAIN sec_findings :
                    sec_findings[i].issue_severity \in {<<"HIGH">>, <<"high">>}})

RuleText(k) ==
    CASE k = 1 -> SuggSyntax
      [] k = 2 -> SuggF401
      [] k = 3 -> SuggSpacing
      [] k = 4 -> SuggE501
      [] k = 5 -> SuggBandit
      [] k = 6 -> SuggComplexity
      [] k = 7 -> SuggMaintain
      [] k = 8 -> IF HighCount > 0 THEN SuggHigh(HighCount) ELSE SuggHarden
      [] k = 9 -> SuggTests

RECURSIVE TextsFrom(_)
TextsFrom(k) ==
    IF k > 9 THEN <<>>
    ELSE (IF RuleHolds(k) THEN <<RuleText(k)>> ELSE <<>>) \o TextsFrom(k + 1)

NoRuleHolds == \A k \in 1..9 : ~RuleHolds(k)

\* C9: the suggestions are never empty and never repeat; they are the texts
\* of exactly the rules whose condition holds, in rule order, and the
\* fallback text is there if and only if no rule holds, then alone.
SuggestionsFollowRules ==
    Derived =>
        /\ suggestions # <<>>
        /\ \A i, j \in DOMAIN suggestions :
               suggestions[i] = suggestions[j] => i = j
        /\ ~NoRuleHolds => suggestions = TextsFrom(1)
        /\ NoRuleHolds <=> (\E i \in DOMAIN suggestions :
                                suggestions[i] = SuggFallback)
        /\ NoRuleHolds => suggestions = <<SuggFallback>>
        /\ ~(\E i, j \in DOMAIN suggestions :
                /\ suggestions[i] = SuggHarden
                /\ suggestions[j] = SuggHigh(HighCount))

SuggestionsWitness ==
    /\ Derived
    /\ NoRuleHolds
    /\ issues # <<>>
    /\ metrics.mi # <<>>
    /\ metrics.avg_cc # <<>>

\* the count printed after "Ruff: " and the one printed after "Bandit: "
LintText(txt) == SubSeq(txt, LintAt(txt) + 1, BanditAt(txt) - 1)
BanditText(txt) == SubSeq(txt, BanditAt(txt) + 1, Len(txt) - 1)

\* C10: in the summary of a full review the Ruff count is the number of
\* findings the lint tool produced and the Bandit count the number of
\* security findings.
SummaryCountsFindings ==
    (Finished /\ trace = StepOrder /\ response.status = 200) =>
        /\ LintText(response.body.summary) = IntText(observed.lintFound)
        /\ BanditText(response.body.summary) = IntText(Len(sec_findings))

====
